---- MODULE Spec2Model ----
(***************************************************************************)
(* MediaDrop SitemapsController (mediadrop/controllers/sitemaps.py).       *)
(*                                                                         *)
(* The controller's five actions are modelled over the site settings, the  *)
(* media table and the process-wide crossdomain_app global.                *)
(***************************************************************************)
EXTENDS Integers, Sequences, FiniteSets, TLC

VARIABLES
    settings,         \* request.settings: the site settings store
    db,               \* the media table, in row order
    request,          \* the request last handled by google/mrss/latest/featured
    response,         \* the response to it
    crawl,            \* sitemap documents a client has fetched from google()
    crossdomain_app,  \* the module-level global cache of the FileApp
    constructed,      \* number of FileApp objects constructed so far
    started,          \* number of crossdomain_xml requests started so far
    saves,            \* number of times the widget setting was saved
    pc,               \* per worker thread: position inside crossdomain_xml
    local,            \* per worker thread: its request's settings and loaded values
    log               \* completed crossdomain_xml exchanges, oldest first

vars == <<settings, db, request, response, crawl, crossdomain_app,
          constructed, started, saves, pc, local, log>>

webvars == <<settings, db, request, response, crawl>>
xdvars == <<crossdomain_app, constructed, started, saves, pc, local, log>>

-----------------------------------------------------------------------------
(* Bounds of the model.                                                    *)

\* media counts range over k*LIMIT + {0, 1, LIMIT/2} for k in 0..MaxIndexPages
MaxIndexPages == 2
\* rows of the media table that are not published or not viewable
HiddenRows == 2
\* rows of the small media tables given to latest() and featured()
MaxRows == 3
\* largest limit and skip asked of latest() and featured()
MaxLimit == 2
MaxSkip == 1
\* worker threads of the server
MaxThreads == 2
\* crossdomain_xml requests handled in one run
MaxRequests == 3
\* saves of the widget setting in one run
MaxSaves == 2

-----------------------------------------------------------------------------
(* Program constants.                                                      *)

SITEMAP_MEDIA_LIMIT == 1000

-----------------------------------------------------------------------------
(* Python values.                                                          *)

\* an optional integer: None, or an int
NoneInt == [set |-> FALSE, n |-> 0]
Some(n) == [set |-> TRUE, n |-> n]

\* a query-string parameter: absent (None), or the characters of its text
Absent == [given |-> FALSE, raw |-> <<>>]
Param(raw) == [given |-> TRUE, raw |-> raw]

Digits == <<"0", "1", "2", "3", "4", "5", "6", "7", "8", "9">>

IsDigit(c) == \E i \in 1..Len(Digits) : Digits[i] = c

DigitVal(c) == (CHOOSE i \in 1..Len(Digits) : Digits[i] = c) - 1

RECURSIVE LStrip(_)
LStrip(s) == IF s # <<>> /\ Head(s) = " " THEN LStrip(Tail(s)) ELSE s

RECURSIVE RStrip(_)
RStrip(s) ==
    IF s # <<>> /\ s[Len(s)] = " " THEN RStrip(SubSeq(s, 1, Len(s) - 1)) ELSE s

RECURSIVE DigitsValue(_)
DigitsValue(s) ==
    IF s = <<>> THEN 0
    ELSE 10 * DigitsValue(SubSeq(s, 1, Len(s) - 1)) + DigitVal(s[Len(s)])

\* int(text): surrounding blanks stripped, an optional sign, one or more digits;
\* anything else raises ValueError (ok = FALSE)
ParseInt(raw) ==
    LET s == RStrip(LStrip(raw))
        signed == s # <<>> /\ Head(s) \in {"+", "-"}
        body == IF signed THEN Tail(s) ELSE s
        ok == body # <<>> /\ \A i \in 1..Len(body) : IsDigit(body[i])
    IN  IF ~ok THEN [ok |-> FALSE, n |-> 0]
        ELSE [ok |-> TRUE,
              n |-> IF signed /\ Head(s) = "-" THEN 0 - DigitsValue(body)
                    ELSE DigitsValue(body)]

\* a / b without float(): Python 2 integer division, then ceil of a whole number
CeilOfIntDiv(a, b) == a \div b

\* the page count taken as one more than the whole pages
CeilPlusOne(a, b) == (a \div b) + 1

\* math.ceil(a / float(b)) for a >= 0, b > 0
Ceil(a, b) == (a \div b) + (IF a % b = 0 THEN 0 ELSE 1)

-----------------------------------------------------------------------------
(* The media repository: a query is the rows it selects (in row order)     *)
(* with the ORDER BY, LIMIT and OFFSET set on it.                          *)

MediaQuery(rows) ==
    [rows |-> rows, order |-> "none", limit |-> NoneInt, offset |-> NoneInt]

IsPublished(m) == m.published
IsViewable(m) == m.viewable
IsFeatured(m) == m.featured

published(q) == [q EXCEPT !.rows = SelectSeq(q.rows, IsPublished)]
viewable_media(q) == [q EXCEPT !.rows = SelectSeq(q.rows, IsViewable)]
in_category(q) == [q EXCEPT !.rows = SelectSeq(q.rows, IsFeatured)]
order_by_publish_on_desc(q) == [q EXCEPT !.order = "publish_on desc"]
limit(q, n) == [q EXCEPT !.limit = Some(n)]
offset(q, n) == [q EXCEPT !.offset = Some(n)]
count(q) == Len(q.rows)

Ids(rows) == [i \in 1..Len(rows) |-> rows[i].id]

\* rows[from+1 .. from+n], cut at the end of rows
Window(rows, from, n) ==
    SubSeq(rows, from + 1, IF from + n < Len(rows) THEN from + n ELSE Len(rows))

IsDescending(rows) ==
    \A i \in 1..(Len(rows) - 1) : rows[i].publish_on >= rows[i + 1].publish_on

Permutations1(rows) ==
    { [i \in 1..Len(rows) |-> rows[f[i]]] :
        f \in { g \in [1..Len(rows) -> 1..Len(rows)] :
                  \A i, j \in 1..Len(rows) : i # j => g[i] # g[j] } }

\* the row sequences the database may produce for the query's ORDER BY:
\* rows of equal publish_on come in any order
Ordered(q) ==
    IF q.order = "none" THEN {q.rows}
    ELSE { r \in Permutations1(q.rows) : IsDescending(r) }

\* what a negative OFFSET does is up to the database: it is read as 0
\* ("clamp") or the statement fails ("error")
NegativeOffsetOutcomes == {"clamp", "error"}

\* the limit cut off first and the offset skipped from what is left
FetchLimitFirst(q) ==
    LET off == IF q.offset.set THEN q.offset.n ELSE 0
        n(rows) == IF q.limit.set THEN q.limit.n ELSE Len(rows)
        run(from) ==
            { [ok |-> TRUE, rows |-> Window(Window(r, 0, n(r)), from, Len(r))]
              : r \in Ordered(q) }
    IN  IF off >= 0 THEN run(off)
        ELSE UNION { IF o = "clamp" THEN run(0)
                     ELSE {[ok |-> FALSE, rows |-> <<>>]}
                     : o \in NegativeOffsetOutcomes }

\* executing the query: ORDER BY, then OFFSET, then LIMIT. The set of
\* possible outcomes, each [ok, rows].
Fetch(q) ==
    LET off == IF q.offset.set THEN q.offset.n ELSE 0
        n(rows) == IF q.limit.set THEN q.limit.n ELSE Len(rows)
        run(from) ==
            { [ok |-> TRUE, rows |-> Window(r, from, n(r))] : r \in Ordered(q) }
    IN  IF off >= 0 THEN run(off)
        ELSE UNION { IF o = "clamp" THEN run(0)
                     ELSE {[ok |-> FALSE, rows |-> <<>>]}
                     : o \in NegativeOffsetOutcomes }

-----------------------------------------------------------------------------
(* Responses.                                                              *)

abort(code) == [status |-> code, body |-> <<>>]
Rendered(dict) == [status |-> 200, body |-> dict]
ServerError == [status |-> 500, body |-> <<>>]

url_for(controller, show) ==
    [controller |-> controller, show |-> show, qualified |-> TRUE]

CanonicalLinks ==
    << url_for("/", ""), url_for("/media", "popular"),
       url_for("/media", "latest"), url_for("/categories", "") >>

-----------------------------------------------------------------------------
(* SitemapsController.google: the set of responses it may give.            *)

\* the offset taken as the page number, not page * SITEMAP_MEDIA_LIMIT
google_listing_offset_page(media, page) ==
    { IF ~r.ok THEN ServerError
      ELSE IF Len(r.rows) = 0 THEN abort(404)
      ELSE Rendered([media |-> Ids(r.rows),
                     page |-> page,
                     links |-> IF page >= 1 THEN <<>> ELSE CanonicalLinks])
      : r \in Fetch(limit(offset(media, page), SITEMAP_MEDIA_LIMIT)) }

google_listing(media, page) ==
    { IF ~r.ok THEN ServerError
      ELSE IF Len(r.rows) = 0 THEN abort(404)
      ELSE Rendered([media |-> Ids(r.rows),
                     page |-> page,
                     links |-> IF page >= 1 THEN <<>> ELSE CanonicalLinks])
      : r \in Fetch(limit(offset(media, page * SITEMAP_MEDIA_LIMIT),
                          SITEMAP_MEDIA_LIMIT)) }

\* the index returned from media_count >= SITEMAP_MEDIA_LIMIT on
google_index_at_limit(s, d, page) ==
    IF s.sitemaps_display # "True" THEN {abort(404)}
    ELSE IF page.given /\ ~ParseInt(page.raw).ok THEN {abort(404)}
    ELSE LET media == viewable_media(published(MediaQuery(d)))
         IN  IF ~page.given
             THEN LET media_count == count(media)
                  IN  IF media_count >= SITEMAP_MEDIA_LIMIT
                      THEN {Rendered([pages |->
                                Ceil(media_count, SITEMAP_MEDIA_LIMIT)])}
                      ELSE google_listing(media, 0)
             ELSE google_listing(media, ParseInt(page.raw).n)

google(s, d, page) ==
    IF s.sitemaps_display # "True" THEN {abort(404)}
    ELSE IF page.given /\ ~ParseInt(page.raw).ok THEN {abort(404)}
    ELSE LET media == viewable_media(published(MediaQuery(d)))
         IN  IF ~page.given
             THEN LET media_count == count(media)
                  IN  IF media_count > SITEMAP_MEDIA_LIMIT
                      THEN {Rendered([pages |->
                                Ceil(media_count, SITEMAP_MEDIA_LIMIT)])}
                      ELSE google_listing(media, 0)
             ELSE google_listing(media, ParseInt(page.raw).n)

\* SitemapsController.mrss
mrss(s, d) ==
    IF s.sitemaps_display # "True" THEN {abort(404)}
    ELSE { IF ~r.ok THEN ServerError
           ELSE Rendered([media |-> Ids(r.rows), title |-> "MediaRSS Sitemap"])
           : r \in Fetch(viewable_media(published(MediaQuery(d)))) }

\* latest() gated on the setting of the sitemap actions
latest_gated_on_sitemaps(s, d, lim, skip) ==
    IF s.sitemaps_display # "True" THEN {abort(404)}
    ELSE LET media_query == order_by_publish_on_desc(published(MediaQuery(d)))
             media0 == viewable_media(media_query)
             media1 == IF lim.set THEN limit(media0, lim.n) ELSE media0
             media2 == IF skip > 0 THEN offset(media1, skip) ELSE media1
         IN  { Rendered([media |-> Ids(r.rows), title |-> "Latest Media"])
               : r \in Fetch(media2) }

\* SitemapsController.latest
latest(s, d, lim, skip) ==
    IF s.rss_display # "True" THEN {abort(404)}
    ELSE LET media_query == order_by_publish_on_desc(published(MediaQuery(d)))
             media0 == viewable_media(media_query)
             media1 == IF lim.set THEN limit(media0, lim.n) ELSE media0
             media2 == IF skip > 0 THEN offset(media1, skip) ELSE media1
         IN  { Rendered([media |-> Ids(r.rows), title |-> "Latest Media"])
               : r \in Fetch(media2) }

\* SitemapsController.featured
featured(s, d, lim, skip) ==
    IF s.rss_display # "True" THEN {abort(404)}
    ELSE LET media_query ==
                 order_by_publish_on_desc(published(in_category(MediaQuery(d))))
             media0 == viewable_media(media_query)
             media1 == IF lim.set THEN limit(media0, lim.n) ELSE media0
             media2 == IF skip > 0 THEN offset(media1, skip) ELSE media1
         IN  { Rendered([media |-> Ids(r.rows), title |-> "Featured Media"])
               : r \in Fetch(media2) }

-----------------------------------------------------------------------------
(* Requests to the four feed actions.                                      *)

Req(action, page, lim, skip) ==
    [action |-> action, page |-> page, limit |-> lim, skip |-> skip]

NoRequest == Req("none", Absent, NoneInt, 0)

NoResponse == [status |-> 0, body |-> <<>>]

IsIndex(r) == r.status = 200 /\ DOMAIN r.body = {"pages"}
IsListing(r) == r.status = 200 /\ DOMAIN r.body = {"media", "page", "links"}
IsFeed(r) == r.status = 200 /\ DOMAIN r.body = {"media", "title"}

\* a client's copy of the sitemap: the page count of the index document,
\* and the page documents 0, 1, ... it has fetched, kept in page order
\* (pages[p + 1] is the media list of page p)
EmptyCrawl == [index |-> NoneInt, pages |-> <<>>]

Record(c, r) ==
    IF IsIndex(r) THEN [c EXCEPT !.index = Some(r.body.pages)]
    ELSE IF IsListing(r) /\ r.body.page = Len(c.pages)
    THEN [c EXCEPT !.pages = Append(c.pages, r.body.media)]
    ELSE c

Google(args) ==
    \E page \in args :
       /\ request' = Req("google", page, NoneInt, 0)
       /\ response' \in google(settings, db, page)
       /\ crawl' = Record(crawl, response')
       /\ UNCHANGED <<settings, db>>
       /\ UNCHANGED xdvars

Mrss ==
    /\ request' = Req("mrss", Absent, NoneInt, 0)
    /\ response' \in mrss(settings, db)
    /\ UNCHANGED <<settings, db, crawl>>
    /\ UNCHANGED xdvars

Latest(limits, skips) ==
    \E lim \in limits, skip \in skips :
       /\ request' = Req("latest", Absent, lim, skip)
       /\ response' \in latest(settings, db, lim, skip)
       /\ UNCHANGED <<settings, db, crawl>>
       /\ UNCHANGED xdvars

Featured(limits, skips) ==
    \E lim \in limits, skip \in skips :
       /\ request' = Req("featured", Absent, lim, skip)
       /\ response' \in featured(settings, db, lim, skip)
       /\ UNCHANGED <<settings, db, crawl>>
       /\ UNCHANGED xdvars

SettingValues == {"True", "False"}

\* an administrator saves one of the display settings; request and
\* response hold the last exchange made under the settings in force
SaveSetting(keys) ==
    \E k \in keys, v \in SettingValues :
       /\ settings[k] # v
       /\ settings' = [settings EXCEPT ![k] = v]
       /\ request' = NoRequest
       /\ response' = NoResponse
       /\ UNCHANGED <<db, crawl>>
       /\ UNCHANGED xdvars

-----------------------------------------------------------------------------
(* SitemapsController.crossdomain_xml, one step per access to the shared   *)
(* global: worker threads may be switched between any two of them.         *)

Threads == 1..MaxThreads

\* crossdomain_app = None
NoApp == 0

WidgetValues == {"", "true"}

\* Python truth value of a setting's text
Truthy(v) == v # ""

Idle == [enabled |-> FALSE, app |-> NoApp]

AllIdle == \A t \in Threads : pc[t] = "idle"

\* the request reaches the action; request.settings holds the settings
\* loaded for this request (line 186)
Begin(t) ==
    /\ pc[t] = "idle"
    /\ started < MaxRequests
    /\ started' = started + 1
    /\ local' = [local EXCEPT ![t] =
          [enabled |-> Truthy(settings.appearance_enable_cooliris),
           app |-> NoApp]]
    /\ pc' = [pc EXCEPT ![t] =
          IF Truthy(settings.appearance_enable_cooliris)
          THEN "test" ELSE "invalidate"]
    /\ UNCHANGED <<crossdomain_app, constructed, saves, log>>
    /\ UNCHANGED webvars

\* the test of line 188 inverted
HasCachedAppInverted(app) == app = NoApp

\* line 188: if crossdomain_app
HasCachedApp(app) == app # NoApp

\* line 188: the disabled path tests the global
InvalidateTest(t) ==
    /\ pc[t] = "invalidate"
    /\ pc' = [pc EXCEPT ![t] =
          IF HasCachedApp(crossdomain_app) THEN "clear" ELSE "raise"]
    /\ UNCHANGED <<crossdomain_app, constructed, started, saves, local, log>>
    /\ UNCHANGED webvars

\* line 189: crossdomain_app = None
InvalidateClear(t) ==
    /\ pc[t] = "clear"
    /\ crossdomain_app' = NoApp
    /\ pc' = [pc EXCEPT ![t] = "raise"]
    /\ UNCHANGED <<constructed, started, saves, local, log>>
    /\ UNCHANGED webvars

\* line 190: raise HTTPNotFound()
RaiseNotFound(t) ==
    /\ pc[t] = "raise"
    /\ log' = Append(log, [enabled |-> FALSE, status |-> 404, app |-> NoApp])
    /\ pc' = [pc EXCEPT ![t] = "idle"]
    /\ local' = [local EXCEPT ![t] = Idle]
    /\ UNCHANGED <<crossdomain_app, constructed, started, saves>>
    /\ UNCHANGED webvars

\* line 192: if not crossdomain_app
NeedsConstruct(app) == app = NoApp

Test(t) ==
    /\ pc[t] = "test"
    /\ pc' = [pc EXCEPT ![t] =
          IF NeedsConstruct(crossdomain_app) THEN "construct" ELSE "forward"]
    /\ UNCHANGED <<crossdomain_app, constructed, started, saves, local, log>>
    /\ UNCHANGED webvars

\* lines 193-195: crossdomain_app = FileApp(abspath); FileApp objects are
\* numbered in the order they are constructed
Construct(t) ==
    /\ pc[t] = "construct"
    /\ constructed' = constructed + 1
    /\ crossdomain_app' = constructed + 1
    /\ pc' = [pc EXCEPT ![t] = "forward"]
    /\ UNCHANGED <<started, saves, local, log>>
    /\ UNCHANGED webvars

\* line 197: the global is loaded again as the argument of forward()
Load(t) ==
    /\ pc[t] = "forward"
    /\ local' = [local EXCEPT ![t].app = crossdomain_app]
    /\ pc' = [pc EXCEPT ![t] = "respond"]
    /\ UNCHANGED <<crossdomain_app, constructed, started, saves, log>>
    /\ UNCHANGED webvars

\* forward(app): the WSGI application is called; None is not callable
forward(app) ==
    IF app = NoApp THEN [enabled |-> TRUE, status |-> 500, app |-> NoApp]
    ELSE [enabled |-> TRUE, status |-> 200, app |-> app]

Forward(t) ==
    /\ pc[t] = "respond"
    /\ log' = Append(log, forward(local[t].app))
    /\ pc' = [pc EXCEPT ![t] = "idle"]
    /\ local' = [local EXCEPT ![t] = Idle]
    /\ UNCHANGED <<crossdomain_app, constructed, started, saves>>
    /\ UNCHANGED webvars

\* an administrator switches the embedded-widget setting
SaveWidgetSetting ==
    /\ saves < MaxSaves
    /\ saves' = saves + 1
    /\ \E v \in WidgetValues :
          /\ v # settings.appearance_enable_cooliris
          /\ settings' = [settings EXCEPT !.appearance_enable_cooliris = v]
    /\ UNCHANGED <<db, request, response, crawl>>
    /\ UNCHANGED <<crossdomain_app, constructed, started, pc, local, log>>

-----------------------------------------------------------------------------
(* Media tables.                                                           *)

\* HiddenRows rows that are unpublished or not viewable, then c rows that
\* are both
SitemapDb(c) ==
    [i \in 1..(HiddenRows + c) |->
        [id |-> i, publish_on |-> i,
         published |-> ~(i <= HiddenRows /\ i % 2 = 1),
         viewable |-> ~(i <= HiddenRows /\ i % 2 = 0),
         featured |-> FALSE]]

MediaCounts ==
    UNION { { k * SITEMAP_MEDIA_LIMIT,
              k * SITEMAP_MEDIA_LIMIT + 1,
              k * SITEMAP_MEDIA_LIMIT + (SITEMAP_MEDIA_LIMIT \div 2) }
            : k \in 0..MaxIndexPages }

SitemapDbs == { SitemapDb(c) : c \in MediaCounts }

RowKinds == {"featured", "plain", "hidden"}

\* publish_on of row i: all different and not in row order ("scrambled"),
\* or equal for neighbouring rows ("paired")
Schedules == {"scrambled", "paired"}

PublishOn(i, sched) ==
    IF sched = "paired" THEN i \div 2
    ELSE IF i % 2 = 0 THEN i + MaxRows ELSE i

\* row i is of kind kinds[i]
FeedDb(kinds, sched) ==
    [i \in 1..MaxRows |->
        [id |-> i, publish_on |-> PublishOn(i, sched),
         published |-> ~(kinds[i] = "hidden" /\ i % 2 = 1),
         viewable |-> ~(kinds[i] = "hidden" /\ i % 2 = 0),
         featured |-> kinds[i] # "plain"]]

FeedDbs ==
    { FeedDb(kinds, sched) : kinds \in [1..MaxRows -> RowKinds], sched \in Schedules }

PageTexts ==
    { <<Digits[p + 1]>> : p \in 0..(MaxIndexPages + 1) }
    \cup { <<"-", "1">>, <<"a", "b", "c">>, <<>>, <<" ", "+", "1", " ">>,
           <<"1", ".", "5">> }

PageArgs == {Absent} \cup { Param(t) : t \in PageTexts }

FewPageArgs == {Absent, Param(<<"0">>), Param(<<"x">>)}

Limits == {NoneInt} \cup { Some(n) : n \in 1..MaxLimit }
Skips == (0 - 1)..MaxSkip

-----------------------------------------------------------------------------
(* Specifications.                                                         *)

InitCrossdomain ==
    /\ crossdomain_app = NoApp
    /\ constructed = 0
    /\ started = 0
    /\ saves = 0
    /\ pc = [t \in Threads |-> "idle"]
    /\ local = [t \in Threads |-> Idle]
    /\ log = <<>>

InitWeb(dbs, widget) ==
    /\ settings \in [sitemaps_display : SettingValues,
                     rss_display : SettingValues,
                     appearance_enable_cooliris : widget]
    /\ db \in dbs
    /\ request = NoRequest
    /\ response = NoResponse
    /\ crawl = EmptyCrawl

\* the sitemap of sites of up to MaxIndexPages full pages and a half
InitSitemaps ==
    /\ InitWeb(SitemapDbs, {""})
    /\ settings.rss_display = "True"
    /\ InitCrossdomain

NextSitemaps ==
    \/ Google(PageArgs)
    \/ Mrss
    \/ SaveSetting({"sitemaps_display"})

SpecSitemaps == InitSitemaps /\ [][NextSitemaps]_vars

\* the four feed actions on small media tables
InitFeeds ==
    /\ InitWeb(FeedDbs, {""})
    /\ InitCrossdomain

NextFeeds ==
    \/ Google(FewPageArgs)
    \/ Mrss
    \/ Latest(Limits, Skips)
    \/ Featured(Limits, Skips)
    \/ SaveSetting({"sitemaps_display", "rss_display"})

SpecFeeds == InitFeeds /\ [][NextFeeds]_vars

InitWidget ==
    /\ InitWeb({SitemapDb(0)}, WidgetValues)
    /\ settings.sitemaps_display = "True"
    /\ settings.rss_display = "True"
    /\ InitCrossdomain

\* crossdomain_xml requests handled one after the other
NextSequential ==
    \/ \E t \in Threads :
          \/ AllIdle /\ Begin(t)
          \/ InvalidateTest(t)
          \/ InvalidateClear(t)
          \/ RaiseNotFound(t)
          \/ Test(t)
          \/ Construct(t)
          \/ Load(t)
          \/ Forward(t)
    \/ SaveWidgetSetting

SpecSequential == InitWidget /\ [][NextSequential]_vars

\* crossdomain_xml requests handled by concurrent worker threads
NextConcurrent ==
    \/ \E t \in Threads :
          \/ Begin(t)
          \/ InvalidateTest(t)
          \/ InvalidateClear(t)
          \/ RaiseNotFound(t)
          \/ Test(t)
          \/ Construct(t)
          \/ Load(t)
          \/ Forward(t)
    \/ SaveWidgetSetting

SpecConcurrent == InitWidget /\ [][NextConcurrent]_vars

Spec == SpecSitemaps

-----------------------------------------------------------------------------
(* Properties of google().                                                 *)

Visible(m) == m.published /\ m.viewable

\* the published and viewable rows, in row order
VisibleRows == SelectSeq(db, Visible)

MediaCount == Cardinality({ i \in DOMAIN db : Visible(db[i]) })

SitemapsOn == settings.sitemaps_display = "True"

GoogleNoPage == request.action = "google" /\ ~request.page.given

\* google(page=<text of the integer p>)
GooglePage(p) ==
    /\ request.action = "google"
    /\ request.page.given
    /\ ParseInt(request.page.raw).ok
    /\ ParseInt(request.page.raw).n = p

RequestedPage == ParseInt(request.page.raw).n

Min(a, b) == IF a < b THEN a ELSE b

\* C1: with more than SITEMAP_MEDIA_LIMIT media, google() without a page
\* parameter returns the index shape: only the field pages, and pages is the
\* least number of pages of SITEMAP_MEDIA_LIMIT items that hold all media
C1_IndexOverLimit ==
    (GoogleNoPage /\ SitemapsOn /\ MediaCount > SITEMAP_MEDIA_LIMIT)
    => /\ response.status = 200
       /\ DOMAIN response.body = {"pages"}
       /\ response.body.pages * SITEMAP_MEDIA_LIMIT >= MediaCount
       /\ (response.body.pages - 1) * SITEMAP_MEDIA_LIMIT < MediaCount

C1_Witness ==
    /\ GoogleNoPage /\ SitemapsOn
    /\ MediaCount = 2 * SITEMAP_MEDIA_LIMIT + 1
    /\ IsIndex(response)
    /\ response.body.pages = 3

\* C2: google(page=p) for an integer p >= 0 returns the items at positions
\* p*1000 .. min(C, (p+1)*1000)-1 of the media set with page = p when
\* p*1000 < C, and NotFound when p*1000 >= C
C2_PageSlice ==
    (SitemapsOn /\ request.action = "google" /\ request.page.given
        /\ ParseInt(request.page.raw).ok /\ RequestedPage >= 0)
    => LET p == RequestedPage
           first == p * SITEMAP_MEDIA_LIMIT
           last == Min(MediaCount, (p + 1) * SITEMAP_MEDIA_LIMIT) - 1
       IN  IF first < MediaCount
           THEN /\ IsListing(response)
                /\ response.body.page = p
                /\ response.body.media =
                      [j \in 1..(last - first + 1) |-> VisibleRows[first + j].id]
           ELSE response = abort(404)

C2_Witness ==
    /\ SitemapsOn /\ GooglePage(1)
    /\ MediaCount = SITEMAP_MEDIA_LIMIT + (SITEMAP_MEDIA_LIMIT \div 2)
    /\ IsListing(response)
    /\ Len(response.body.media) = SITEMAP_MEDIA_LIMIT \div 2
    /\ response.body.links = <<>>

\* C3, as first stated: with at most SITEMAP_MEDIA_LIMIT media, google() without a
\* page parameter returns the listing of all media, page 0 and the four links
C3_ListingForEveryCount ==
    (GoogleNoPage /\ SitemapsOn /\ MediaCount <= SITEMAP_MEDIA_LIMIT)
    => /\ IsListing(response)
       /\ response.body.media = Ids(VisibleRows)
       /\ response.body.page = 0
       /\ response.body.links = CanonicalLinks
       /\ Len(response.body.links) = 4

\* C3, amended: with 1 <= C <= SITEMAP_MEDIA_LIMIT media, google() without a
\* page parameter returns the listing of all C media, page 0 and the four
\* links; with no media at all it is NotFound
C3_SmallSiteListing ==
    (GoogleNoPage /\ SitemapsOn /\ MediaCount <= SITEMAP_MEDIA_LIMIT)
    => IF MediaCount = 0 THEN response = abort(404)
       ELSE /\ IsListing(response)
            /\ response.body.media = Ids(VisibleRows)
            /\ Len(response.body.media) = MediaCount
            /\ response.body.page = 0
            /\ response.body.links = CanonicalLinks
            /\ Len(response.body.links) = 4

C3_Witness ==
    /\ GoogleNoPage /\ SitemapsOn
    /\ MediaCount = SITEMAP_MEDIA_LIMIT
    /\ IsListing(response)
    /\ Len(response.body.media) = SITEMAP_MEDIA_LIMIT

\* C4: in every item listing of google() the links are the four canonical
\* links when the listing's page is 0 and empty for every other page
C4_LinksOnlyOnPageZero ==
    (request.action = "google" /\ IsListing(response))
    => /\ response.body.page = 0 => response.body.links = CanonicalLinks
       /\ response.body.page # 0 => response.body.links = <<>>

Items(page) == { page[i] : i \in 1..Len(page) }

RECURSIVE TotalLen(_)
TotalLen(pages) ==
    IF pages = <<>> THEN 0 ELSE Len(Head(pages)) + TotalLen(Tail(pages))

\* C10: the index and its pages agree. With P the page count of the index,
\* google(page=p) is a non-empty listing for 0 <= p < P and NotFound for
\* p >= P; the pages fetched hold no item twice, and pages 0..P-1 together
\* hold every one of the C media exactly once
C10_IndexMatchesPages ==
    crawl.index.set
    => LET P == crawl.index.n
           n == Len(crawl.pages)
       IN  /\ MediaCount > SITEMAP_MEDIA_LIMIT
           /\ n <= P
           /\ (SitemapsOn /\ request.action = "google" /\ request.page.given
                 /\ ParseInt(request.page.raw).ok /\ RequestedPage >= 0)
              => IF RequestedPage < P
                 THEN IsListing(response) /\ response.body.media # <<>>
                 ELSE response = abort(404)
           /\ \A i \in 1..n : Cardinality(Items(crawl.pages[i])) = Len(crawl.pages[i])
           /\ \A i, j \in 1..n :
                 i < j => Items(crawl.pages[i]) \cap Items(crawl.pages[j]) = {}
           /\ n = P
              => /\ UNION { Items(crawl.pages[i]) : i \in 1..n }
                       = { db[i].id : i \in { k \in DOMAIN db : Visible(db[k]) } }
                 /\ TotalLen(crawl.pages) = MediaCount

C10_Witness ==
    /\ crawl.index.set
    /\ crawl.index.n = 3
    /\ Len(crawl.pages) = 3
    /\ SitemapsOn /\ GooglePage(3)
    /\ response = abort(404)

-----------------------------------------------------------------------------
(* Properties of the feed actions.                                         *)

\* C5: with sitemaps_display not 'True', google() and mrss() are NotFound
\* whatever the page parameter and the media; with rss_display not 'True',
\* latest() and featured() are NotFound whatever limit and skip
C5_FeatureGating ==
    /\ (request.action \in {"google", "mrss"}
           /\ settings.sitemaps_display # "True")
       => response = abort(404)
    /\ (request.action \in {"latest", "featured"}
           /\ settings.rss_display # "True")
       => response = abort(404)

C5_Witness ==
    /\ request.action = "latest"
    /\ request.limit.set
    /\ settings.rss_display = "False"
    /\ settings.sitemaps_display = "True"
    /\ Len(VisibleRows) > 0
    /\ response = abort(404)

\* the rows latest() selects from, and those featured() selects from
Pool(action) ==
    { i \in DOMAIN db : Visible(db[i]) /\ (action = "featured" => db[i].featured) }

\* the k-th latest publish_on among the rows of pool, for 1 <= k <= |pool|
KthLatest(pool, k) ==
    CHOOSE t \in { db[i].publish_on : i \in pool } :
        /\ Cardinality({ i \in pool : db[i].publish_on >= t }) >= k
        /\ Cardinality({ i \in pool : db[i].publish_on > t }) < k

RowOf(id) == CHOOSE i \in DOMAIN db : db[i].id = id

\* C6: with rss_display 'True', latest(limit, skip) returns the published
\* viewable media by publish_on descending, without the first skip of them
\* when skip > 0 and at most limit of them when limit is set; featured()
\* returns the same window of the media of the featured category
C6_FeedWindow ==
    (request.action \in {"latest", "featured"} /\ settings.rss_display = "True")
    => LET pool == Pool(request.action)
           skip == IF request.skip > 0 THEN request.skip ELSE 0
           avail == IF Cardinality(pool) > skip THEN Cardinality(pool) - skip ELSE 0
           n == IF request.limit.set THEN Min(avail, request.limit.n) ELSE avail
       IN  /\ IsFeed(response)
           /\ Len(response.body.media) = n
           /\ \A j \in 1..n : RowOf(response.body.media[j]) \in pool
           /\ \A j, k \in 1..n : j # k => response.body.media[j] # response.body.media[k]
           /\ \A j \in 1..n :
                 db[RowOf(response.body.media[j])].publish_on
                    = KthLatest(pool, skip + j)

C6_Witness ==
    /\ request = Req("latest", Absent, Some(2), 1)
    /\ settings.rss_display = "True"
    /\ Cardinality(Pool("latest")) = 3
    /\ db[1].publish_on < db[3].publish_on
    /\ db[3].publish_on < db[2].publish_on
    /\ response.status = 200
    /\ response.body.media = <<3, 1>>

-----------------------------------------------------------------------------
(* Properties of crossdomain_xml().                                        *)

\* C7: with requests handled one after the other, a request made while the
\* widget setting is off is NotFound and leaves crossdomain_app absent, and
\* every later request made with the setting on is served by a FileApp that
\* served no request before the one made while off
C7_NoStaleHandle ==
    /\ \A i \in 1..Len(log) : ~log[i].enabled => log[i].status = 404
    /\ (AllIdle /\ log # <<>> /\ ~log[Len(log)].enabled) => crossdomain_app = NoApp
    /\ \A i, j \in 1..Len(log) :
          (i < j /\ ~log[i].enabled /\ log[j].enabled)
          => /\ log[j].status = 200
             /\ log[j].app # NoApp
             /\ \A k \in 1..(i - 1) : log[k].app # log[j].app

C7_Witness ==
    /\ Len(log) = 3
    /\ log[1].enabled /\ log[1].status = 200 /\ log[1].app = 1
    /\ ~log[2].enabled /\ log[2].status = 404
    /\ log[3].enabled /\ log[3].status = 200 /\ log[3].app = 2

\* C8: under every interleaving, a request that passed the enabled check
\* delegates its response to a constructed FileApp, never to an absent one
C8_DelegatesToPresentHandle ==
    \A i \in 1..Len(log) :
        log[i].enabled => (log[i].status = 200 /\ log[i].app # NoApp)

\* C9: from an absent handle and with the widget setting on throughout,
\* concurrent requests construct at most one FileApp in total
C9_AtMostOneConstruction ==
    (saves = 0 /\ Truthy(settings.appearance_enable_cooliris))
    => constructed <= 1

====
